---- MODULE Spec2Model ----
(***************************************************************************)
(* Model of app.py: a client of the NCBI BLAST job API.                    *)
(*   clean_sequence  - validates and canonicalizes one DNA sequence        *)
(*   submit_blast    - submits the job, extracts the RID                   *)
(*   wait_for_result - bounded status-poll loop                            *)
(*   fetch_result    - retrieves the result document                       *)
(*   parse_top_hits  - reduces the document to at most ten hit summaries   *)
(*   blast_lookup    - the pipeline, with its catch-all handler            *)
(* Strings are sequences of one-character strings.  One run of the model   *)
(* is one call of the function named by entry; the remote service answers  *)
(* each request nondeterministically.                                      *)
(***************************************************************************)
EXTENDS Integers, Sequences, FiniteSets, TLC

VARIABLES entry, pc, seq, sequence, rid, timeout, attempt, sleeps, clock,
          calls, status, xml, outcome, result, exc

vars == <<entry, pc, seq, sequence, rid, timeout, attempt, sleeps, clock,
          calls, status, xml, outcome, result, exc>>

(***************************************************************************)
(* Bounds of the model.                                                    *)
(***************************************************************************)
MaxRawLen == 5
MaxLookupRawLen == 1
MaxTimeout == 17
MaxStatusLines == 2
MaxHits == 12
MaxNum == 3

(***************************************************************************)
(* Program constants.                                                      *)
(***************************************************************************)
MaxBp == 3000
DefaultTimeout == 180
PollDivisor == 5
SleepSeconds == 5
HitCap == 10

(***************************************************************************)
(* Python str primitives.                                                  *)
(***************************************************************************)
SetMin(S) == CHOOSE m \in S : \A n \in S : m <= n
SetMax(S) == CHOOSE m \in S : \A n \in S : n <= m

IsSpace(c) == c \in {" ", "\t", "\n"}

\* str.strip(): drops leading and trailing whitespace.
Strip(s) ==
    LET keep == {i \in DOMAIN s : ~IsSpace(s[i])}
    IN  IF keep = {} THEN <<>> ELSE SubSeq(s, SetMin(keep), SetMax(keep))

\* str.splitlines(): pieces between line breaks; no empty piece after a
\* final line break, and no piece at all for the empty string.
SplitLines(s) ==
    LET nl == {i \in DOMAIN s : s[i] = "\n"}
        n == Cardinality(nl) + (IF s # <<>> /\ s[Len(s)] # "\n" THEN 1 ELSE 0)
        brk(k) == IF k = 0 THEN 0
                  ELSE IF k > Cardinality(nl) THEN Len(s) + 1
                  ELSE CHOOSE p \in nl : Cardinality({q \in nl : q <= p}) = k
    IN  [k \in 1..n |-> SubSeq(s, brk(k - 1) + 1, brk(k) - 1)]

\* line.startswith(prefix)
StartsWith(s, prefix) ==
    Len(s) >= Len(prefix) /\ SubSeq(s, 1, Len(prefix)) = prefix

\* needle in s
Contains(s, needle) ==
    \E i \in 1..(Len(s) - Len(needle) + 1) :
        SubSeq(s, i, i + Len(needle) - 1) = needle

\* ''.join(lines)
RECURSIVE Join(_)
Join(lines) ==
    IF lines = <<>> THEN <<>> ELSE Head(lines) \o Join(Tail(lines))

\* s.replace(" ", "")
RemoveSpaces(s) == SelectSeq(s, LAMBDA c : c # " ")

UpperChar(c) ==
    CASE c = "a" -> "A" [] c = "c" -> "C" [] c = "g" -> "G" [] c = "t" -> "T"
      [] c = "n" -> "N" [] c = "x" -> "X" [] c = "z" -> "Z"
      [] OTHER -> c

\* s.upper()
Upper(s) == [i \in DOMAIN s |-> UpperChar(s[i])]

\* set(s)
CharSet(s) == {s[i] : i \in DOMAIN s}

(***************************************************************************)
(* Exceptions and what a function call yields.                             *)
(***************************************************************************)
NoChars == {}
NoText == <<>>

Exception(type, msg, chars, lit) ==
    [type |-> type, msg |-> msg, chars |-> chars, lit |-> lit]

NoExc == Exception("None", "", NoChars, NoText)

Returned(v) == [kind |-> "return", value |-> v, exc |-> NoExc]
Raised(e) == [kind |-> "raise", value |-> <<>>, exc |-> e]

\* str(e): the message text, with the parts formatted into it.
StrOf(e) == [msg |-> e.msg, chars |-> e.chars, lit |-> e.lit]

(***************************************************************************)
(* clean_sequence                                                          *)
(***************************************************************************)
valid_iupac_dna ==
    {"A", "C", "G", "T", "R", "Y", "K", "M", "S", "W", "B", "D", "H", "V", "N"}

header_lines(lines) == SelectSeq(lines, LAMBDA line : StartsWith(line, <<">">>))

sequence_lines(lines) ==
    LET data == SelectSeq(lines, LAMBDA line : ~StartsWith(line, <<">">>))
    IN  [k \in DOMAIN data |-> Strip(data[k])]

\* A canonical form that is not uppercased.
cleaned_seq_NoUpper(lines) == RemoveSpaces(Join(sequence_lines(lines)))

cleaned_seq(lines) == Upper(RemoveSpaces(Join(sequence_lines(lines))))

clean_sequence(s) ==
    LET lines == SplitLines(Strip(s))
        cleaned == cleaned_seq(lines)
    IN  IF lines = <<>>
        THEN Raised(Exception("ValueError", "Input is empty", NoChars, NoText))
        ELSE IF Len(header_lines(lines)) > 1
        THEN Raised(Exception("ValueError",
                 "Multiple sequences detected. Please submit only one sequence at a time.",
                 NoChars, NoText))
        ELSE IF cleaned = <<>>
        THEN Raised(Exception("ValueError", "No sequence data found", NoChars, NoText))
        ELSE IF ~(CharSet(cleaned) \subseteq valid_iupac_dna)
        THEN Raised(Exception("ValueError", "Invalid characters in sequence: ",
                 CharSet(cleaned) \ valid_iupac_dna, NoText))
        ELSE Returned(cleaned)

(***************************************************************************)
(* The remote service.  A response is a transport failure (the request     *)
(* itself raises), or an HTTP response with a success or error status and   *)
(* a body.                                                                 *)
(***************************************************************************)
Response(how, text) == [how |-> how, text |-> text]

RID_MARKER == <<"R", "I", "D", " ", "=">>
STATUS_READY == <<"S", "t", "a", "t", "u", "s", "=", "R", "E", "A", "D", "Y">>
STATUS_FAILED == <<"S", "t", "a", "t", "u", "s", "=", "F", "A", "I", "L", "E", "D">>
STATUS_UNKNOWN == <<"S", "t", "a", "t", "u", "s", "=", "U", "N", "K", "N", "O", "W", "N">>
STATUS_WAITING == <<"S", "t", "a", "t", "u", "s", "=", "W", "A", "I", "T", "I", "N", "G">>

SubmitBodies ==
    { <<" ", " ", "R", "I", "D", " ", "=", " ", "J", "1", " ", "\n", "R", "T", "O", "E", " ", "=", " ", "9">>,
      <<"x", "=", "y", "\n", "R", "I", "D", " ", "=", "J", "2", "\n", "R", "I", "D", " ", "=", " ", "J", "3">>,
      <<"a", "=", "R", "I", "D", " ", "=", "J">>,
      <<"R", "I", "D", " ", "=">>,
      <<"R", "I", "D", ":", " ", "J", "4", "\n", "R", "T", "O", "E", " ", "=", " ", "9">>,
      <<>> }

SubmitResponses ==
    {Response("ok", b) : b \in SubmitBodies}
        \cup {Response("http_error", <<>>), Response("connection_error", <<>>)}

\* line.split("=", 1)[1]: the text after the first "=" of the line.
AfterFirstEq(line) ==
    LET eqs == {i \in DOMAIN line : line[i] = "="}
    IN  SubSeq(line, SetMin(eqs) + 1, Len(line))

(***************************************************************************)
(* submit_blast: what the function yields for a response of the service.   *)
(***************************************************************************)
submit_blast(response) ==
    LET lines == SplitLines(response.text)
        marked == {k \in DOMAIN lines : Contains(lines[k], RID_MARKER)}
    IN  IF response.how = "connection_error"
        THEN Raised(Exception("ConnectionError", "connection failed", NoChars, NoText))
        ELSE IF response.how = "http_error"
        THEN Raised(Exception("HTTPError", "bad status", NoChars, NoText))
        ELSE IF marked # {}
        THEN Returned(Strip(AfterFirstEq(lines[SetMin(marked)])))
        ELSE Raised(Exception("RuntimeError", "RID not found in BLAST response",
                 NoChars, NoText))

(***************************************************************************)
(* wait_for_result                                                         *)
(***************************************************************************)
StatusPieces ==
    { STATUS_READY \o <<"\n">>, STATUS_FAILED \o <<"\n">>,
      STATUS_UNKNOWN \o <<"\n">>, STATUS_WAITING \o <<"\n">> }

StatusTexts ==
    {Join(ps) : ps \in UNION {[1..n -> StatusPieces] : n \in 0..MaxStatusLines}}

StatusResponses ==
    {Response("ok", t) : t \in StatusTexts}
        \cup {Response("http_error", t) : t \in {<<>>, STATUS_READY}}
        \cup {Response("connection_error", <<>>)}

\* A loop that runs one iteration more.
Attempts_OneMore(t) == IF t \div PollDivisor >= 0 THEN t \div PollDivisor + 1 ELSE 0

\* A loop that runs one iteration less.
Attempts_OneLess(t) == IF t \div PollDivisor > 1 THEN t \div PollDivisor - 1 ELSE 0

\* range(timeout // 5): the number of iterations of the loop.
Attempts(t) == IF t \div PollDivisor > 0 THEN t \div PollDivisor ELSE 0

\* A loop body that takes a failed job for a finished one.
StatusBranch_FailedReturns(text) ==
    IF Contains(text, STATUS_READY) \/ Contains(text, STATUS_FAILED) THEN "return"
    ELSE IF Contains(text, STATUS_UNKNOWN) THEN "raise"
    ELSE "sleep"

\* A loop body that does not look for Status=UNKNOWN.
StatusBranch_NoUnknown(text) ==
    IF Contains(text, STATUS_READY) THEN "return"
    ELSE IF Contains(text, STATUS_FAILED) THEN "raise"
    ELSE "sleep"

\* The if/elif of the loop body: what one status text makes the loop do.
StatusBranch(text) ==
    IF Contains(text, STATUS_READY) THEN "return"
    ELSE IF Contains(text, STATUS_FAILED) \/ Contains(text, STATUS_UNKNOWN)
    THEN "raise"
    ELSE "sleep"

(***************************************************************************)
(* The result document.  An element that findtext looks for is a field:    *)
(* absent, or present with a text.  A document that ET.fromstring accepts  *)
(* is well-formed; it carries the query length field and the Hit elements  *)
(* in document order, each with its fields and its first Hsp, if any.      *)
(***************************************************************************)
Absent == [present |-> FALSE, text |-> <<>>]
Field(t) == [present |-> TRUE, text |-> t]

Hsp(identity, align_len, evalue) ==
    [present |-> TRUE, identity |-> identity, align_len |-> align_len,
     evalue |-> evalue]

NoHsp == [present |-> FALSE, identity |-> Absent, align_len |-> Absent,
          evalue |-> Absent]

Hit(accession, len, def, hsp) ==
    [accession |-> accession, len |-> len, def |-> def, hsp |-> hsp]

Document(query_len, hits) ==
    [wellformed |-> TRUE, query_len |-> query_len, hits |-> hits]

Malformed == [wellformed |-> FALSE, query_len |-> Absent, hits |-> <<>>]

\* element.findtext(path, default)
FindText(field, default) == IF field.present THEN field.text ELSE default

Digits == <<"0", "1", "2", "3", "4", "5", "6", "7", "8", "9">>

IsDigit(c) == \E d \in DOMAIN Digits : Digits[d] = c

DigitVal(c) == (CHOOSE d \in DOMAIN Digits : Digits[d] = c) - 1

DigitChar(n) == Digits[n + 1]

RECURSIVE DigitsVal(_)
DigitsVal(t) ==
    IF t = <<>> THEN 0
    ELSE 10 * DigitsVal(SubSeq(t, 1, Len(t) - 1)) + DigitVal(t[Len(t)])

\* int(text): surrounding whitespace and one sign are accepted; anything
\* but decimal digits after that is a ValueError.
ParseInt(text) ==
    LET t == Strip(text)
        signed == t # <<>> /\ t[1] \in {"-", "+"}
        body == IF signed THEN Tail(t) ELSE t
    IN  IF body # <<>> /\ \A i \in DOMAIN body : IsDigit(body[i])
        THEN Returned(IF signed /\ t[1] = "-" THEN 0 - DigitsVal(body)
                      ELSE DigitsVal(body))
        ELSE Raised(Exception("ValueError",
                 "invalid literal for int() with base 10: ", NoChars, text))

\* float(text), for the texts of the model (integer literals or not numbers).
ParseFloat(text) ==
    IF ParseInt(text).kind = "return" THEN ParseInt(text)
    ELSE Raised(Exception("ValueError", "could not convert string to float: ",
             NoChars, text))

\* round(n / d) for d > 0, ties to even.
RoundHalfEven(n, d) ==
    LET q == n \div d
        r == n % d
    IN  IF 2 * r < d THEN q
        ELSE IF 2 * r > d THEN q + 1
        ELSE IF q % 2 = 0 THEN q ELSE q + 1

\* round(identity / align_len * 100, 2), in hundredths of a percent.
identity_percent(identity, align_len) ==
    IF align_len = 0
    THEN Raised(Exception("ZeroDivisionError", "division by zero", NoChars, NoText))
    ELSE IF align_len > 0
    THEN Returned(RoundHalfEven(identity * 10000, align_len))
    ELSE Returned(RoundHalfEven((0 - identity) * 10000, 0 - align_len))

PREDICTED == <<"P", "R", "E", "D", "I", "C", "T", "E", "D", ":", " ">>

\* s.split(",")[0]
BeforeFirstComma(s) ==
    LET commas == {i \in DOMAIN s : s[i] = ","}
    IN  IF commas = {} THEN s ELSE SubSeq(s, 1, SetMin(commas) - 1)

organism_gene(hit) ==
    LET def == FindText(hit.def, <<>>)
        unprefixed == IF StartsWith(def, PREDICTED)
                      THEN Strip(SubSeq(def, Len(PREDICTED) + 1, Len(def)))
                      ELSE def
    IN  Strip(BeforeFirstComma(unprefixed))

\* The defaults that findtext is given for each numeric field.
QueryLenDefault == <<"0">>
IdentityDefault == <<"0">>
AlignLenDefault == <<"1">>
\* A length that defaults to one.
HitLenDefault_One == <<"1">>

HitLenDefault == <<"0">>
EvalueDefault == <<"1">>

\* One pass of the loop body for a hit that has an Hsp: the dictionary
\* appended to results, or the first exception in evaluation order.
HitSummary(hit) ==
    LET identity == ParseInt(FindText(hit.hsp.identity, IdentityDefault))
        align_len == ParseInt(FindText(hit.hsp.align_len, AlignLenDefault))
        length == ParseInt(FindText(hit.len, HitLenDefault))
        evalue == ParseFloat(FindText(hit.hsp.evalue, EvalueDefault))
        percent == identity_percent(identity.value, align_len.value)
    IN  IF identity.kind = "raise" THEN identity
        ELSE IF align_len.kind = "raise" THEN align_len
        ELSE IF length.kind = "raise" THEN length
        ELSE IF evalue.kind = "raise" THEN evalue
        ELSE IF percent.kind = "raise" THEN percent
        ELSE Returned([accession |-> FindText(hit.accession, <<>>),
                       length |-> length.value,
                       evalue |-> evalue.value,
                       identity_percent |-> percent.value,
                       description |-> organism_gene(hit)])

\* A selection that forgets the cap.
FirstHits_NoCap(doc) == doc.hits

\* root.findall(".//Hit")[:10]
FirstHits(doc) ==
    SubSeq(doc.hits, 1, IF Len(doc.hits) < HitCap THEN Len(doc.hits) ELSE HitCap)

(***************************************************************************)
(* parse_top_hits                                                          *)
(***************************************************************************)
parse_top_hits(doc) ==
    LET query_len == ParseInt(FindText(doc.query_len, QueryLenDefault))
        hits == FirstHits(doc)
        kept == SelectSeq(hits, LAMBDA hit : hit.hsp.present)
        summaries == [k \in DOMAIN kept |-> HitSummary(kept[k])]
        failing == {k \in DOMAIN kept : summaries[k].kind = "raise"}
    IN  IF ~doc.wellformed
        THEN Raised(Exception("ParseError", "syntax error", NoChars, NoText))
        ELSE IF query_len.kind = "raise" THEN query_len
        ELSE IF failing # {} THEN summaries[SetMin(failing)]
        ELSE Returned([query_len |-> query_len.value,
                       top_hits |-> [k \in DOMAIN kept |-> summaries[k].value]])

(***************************************************************************)
(* fetch_result and blast_lookup's length check and handler.               *)
(***************************************************************************)
fetch_result(response) ==
    IF response.how = "connection_error"
    THEN Raised(Exception("ConnectionError", "connection failed", NoChars, NoText))
    ELSE IF response.how = "http_error"
    THEN Raised(Exception("HTTPError", "bad status", NoChars, NoText))
    ELSE Returned(response.text)

\* A length check that is off by one.
TooLong_AtLimit(s) == Len(s) >= MaxBp

\* len(sequence) > 3000
TooLong(s) == Len(s) > MaxBp

ErrorPayload(message) == [error |-> message]

TooLongPayload ==
    ErrorPayload(StrOf(Exception("", "Sequence too long (max 3000 bp)",
                                 NoChars, NoText)))

\* A handler that catches ValueError only.
blast_lookup_except_ValueError(e) ==
    IF e.type = "ValueError" THEN Returned(ErrorPayload(StrOf(e))) ELSE Raised(e)

\* except Exception as e: return {"error": str(e)}
blast_lookup_except(e) == Returned(ErrorPayload(StrOf(e)))

(***************************************************************************)
(* Inputs.                                                                 *)
(***************************************************************************)
Chars == {"A", "g", "x", " ", "\t", "\n", ">"}

Strings(n) == UNION {[1..k -> Chars] : k \in 0..n}

Repeat(c, n) == [i \in 1..n |-> c]

LongInputs ==
    {prefix \o Repeat("A", n) :
        prefix \in {<<>>, <<" ">>, <<">", "x", "\n">>}, n \in {MaxBp, MaxBp + 1}}

RawInputs == Strings(MaxRawLen)

LookupInputs == Strings(MaxLookupRawLen) \cup LongInputs

Timeouts == (0 - MaxTimeout)..MaxTimeout

NumTexts ==
    {<<DigitChar(n)>> : n \in 0..MaxNum}
        \cup {<<"x">>, <<>>, <<"-", "1">>, <<" ", "2", " ">>}

NumFields == {Absent} \cup {Field(t) : t \in NumTexts}

FewFields == {Absent, Field(<<"7">>), Field(<<"x">>), Field(<<>>)}

DefFields ==
    {Absent, Field(<<" ", "a", " ">>), Field(PREDICTED \o <<" ", "a", ",", "b">>)}

Acc(k) == <<DigitChar(k \div 10), DigitChar(k % 10)>>

FieldDocuments ==
    {Document(q, <<Hit(Field(<<"h">>), l, d, Hsp(i, a, e))>>) :
        q \in FewFields, l \in FewFields, d \in DefFields,
        i \in NumFields, a \in NumFields, e \in FewFields}

CapDocuments ==
    UNION {
        {Document(Absent,
                  [k \in 1..n |->
                      Hit(Field(Acc(k)), Absent, Absent,
                          IF k \in missing THEN NoHsp
                          ELSE Hsp(Absent, Absent, Absent))]) :
            missing \in {m \in SUBSET (1..n) : Cardinality(m) <= 2}} :
        n \in 0..MaxHits}

Documents == FieldDocuments \cup CapDocuments \cup {Malformed}

LookupDocuments ==
    {Document(q, <<Hit(Field(<<"h">>), Absent, Absent, Hsp(i, a, Absent))>>) :
        q \in {Absent, Field(<<"x">>)}, i \in {Absent, Field(<<"2">>)},
        a \in NumFields}
        \cup {d \in CapDocuments :
                 /\ Len(d.hits) = MaxHits
                 /\ Cardinality({k \in DOMAIN d.hits : ~d.hits[k].hsp.present}) <= 1}
        \cup {Malformed}

FetchResponses ==
    {Response("ok", d) : d \in LookupDocuments}
        \cup {Response("http_error", Malformed),
              Response("connection_error", Malformed)}

(***************************************************************************)
(* The state machine.                                                      *)
(***************************************************************************)
Call(op, r, ready) == [op |-> op, rid |-> r, ready |-> ready]

Continue == [kind |-> "continue", value |-> <<>>, exc |-> NoExc]

\* What an action leaves behind: the next step of the function, or the
\* end of the call.  An exception raised below blast_lookup goes through
\* its handler; raised in any other entry point, it reaches the caller.
Settle(o, next) ==
    IF o.kind = "continue"
    THEN /\ pc' = next
         /\ UNCHANGED <<outcome, result, exc>>
    ELSE LET f == IF entry = "blast_lookup" /\ o.kind = "raise"
                  THEN blast_lookup_except(o.exc) ELSE o
         IN  /\ pc' = "done"
             /\ outcome' = f.kind
             /\ result' = f.value
             /\ exc' = o.exc

Idle ==
    /\ sequence = <<>> /\ rid = <<>> /\ attempt = 0 /\ sleeps = 0 /\ clock = 0
    /\ calls = <<>> /\ status = <<>>
    /\ outcome = "running" /\ result = <<>> /\ exc = NoExc

InitClean ==
    /\ entry = "clean_sequence" /\ pc = "call"
    /\ seq \in RawInputs
    /\ timeout = DefaultTimeout /\ xml = Malformed
    /\ Idle

InitWait ==
    /\ entry = "wait_for_result" /\ pc = "wait"
    /\ seq = <<>>
    /\ timeout \in Timeouts /\ xml = Malformed
    /\ Idle

InitParse ==
    /\ entry = "parse_top_hits" /\ pc = "call"
    /\ seq = <<>>
    /\ timeout = DefaultTimeout /\ xml \in Documents
    /\ Idle

InitLookup ==
    /\ entry = "blast_lookup" /\ pc = "call"
    /\ seq \in LookupInputs
    /\ timeout = DefaultTimeout /\ xml = Malformed
    /\ Idle

Init == InitClean \/ InitWait \/ InitParse \/ InitLookup

\* clean_sequence(seq), called on its own.
CleanCall ==
    /\ entry = "clean_sequence" /\ pc = "call"
    /\ LET c == clean_sequence(seq)
       IN  /\ sequence' = IF c.kind = "return" THEN c.value ELSE sequence
           /\ Settle(c, "done")
    /\ UNCHANGED <<entry, seq, rid, timeout, attempt, sleeps, clock, calls,
                   status, xml>>

\* blast_lookup up to its first network call: clean_sequence, length check.
LookupCall ==
    /\ entry = "blast_lookup" /\ pc = "call"
    /\ LET c == clean_sequence(seq)
       IN  IF c.kind = "raise"
           THEN sequence' = sequence /\ Settle(c, "done")
           ELSE /\ sequence' = c.value
                /\ IF TooLong(c.value)
                   THEN Settle(Returned(TooLongPayload), "done")
                   ELSE Settle(Continue, "submit")
    /\ UNCHANGED <<entry, seq, rid, timeout, attempt, sleeps, clock, calls,
                   status, xml>>

\* rid = submit_blast(sequence)
Submit ==
    /\ pc = "submit"
    /\ \E response \in SubmitResponses :
          LET r == submit_blast(response)
          IN  /\ calls' = Append(calls, Call("submit", <<>>, FALSE))
              /\ rid' = IF r.kind = "return" THEN r.value ELSE rid
              /\ IF r.kind = "return" THEN Settle(Continue, "wait")
                 ELSE Settle(r, "done")
    /\ UNCHANGED <<entry, seq, sequence, timeout, attempt, sleeps, clock,
                   status, xml>>

\* One iteration of the loop of wait_for_result up to its sleep.  The local
\* status does not outlive the function when blast_lookup goes on from it.
Poll ==
    /\ pc = "wait"
    /\ attempt < Attempts(timeout)
    /\ \E response \in StatusResponses :
          IF response.how = "connection_error"
          THEN /\ calls' = Append(calls, Call("poll", rid, FALSE))
               /\ status' = status
               /\ Settle(Raised(Exception("ConnectionError", "connection failed",
                                          NoChars, NoText)), "done")
          ELSE LET branch == StatusBranch(response.text)
               IN  /\ calls' = Append(calls, Call("poll", rid,
                                       Contains(response.text, STATUS_READY)))
                   /\ status' = IF branch = "return" /\ entry = "blast_lookup"
                                THEN <<>> ELSE response.text
                   /\ IF branch = "return"
                      THEN IF entry = "wait_for_result"
                           THEN Settle(Returned(<<>>), "done")
                           ELSE Settle(Continue, "fetch")
                      ELSE IF branch = "raise"
                      THEN Settle(Raised(Exception("RuntimeError",
                                      "BLAST search failed or unknown",
                                      NoChars, NoText)), "done")
                      ELSE Settle(Continue, "sleep")
    /\ UNCHANGED <<entry, seq, sequence, rid, timeout, attempt, sleeps, clock,
                   xml>>

\* time.sleep(5) and the step to the next iteration.
Sleep ==
    /\ pc = "sleep"
    /\ clock' = clock + SleepSeconds
    /\ sleeps' = sleeps + 1
    /\ attempt' = attempt + 1
    /\ pc' = "wait"
    /\ UNCHANGED <<entry, seq, sequence, rid, timeout, calls, status, xml,
                   outcome, result, exc>>

\* The loop ends without a return: raise TimeoutError.
Exhausted ==
    /\ pc = "wait"
    /\ attempt >= Attempts(timeout)
    /\ Settle(Raised(Exception("TimeoutError", "BLAST timed out",
                               NoChars, NoText)), "done")
    /\ UNCHANGED <<entry, seq, sequence, rid, timeout, attempt, sleeps, clock,
                   calls, status, xml>>

\* xml = fetch_result(rid); return parse_top_hits(xml)
Fetch ==
    /\ pc = "fetch"
    /\ \E response \in FetchResponses :
          LET f == fetch_result(response)
          IN  /\ calls' = Append(calls, Call("fetch", rid, FALSE))
              /\ xml' = IF f.kind = "return" THEN f.value ELSE xml
              /\ IF f.kind = "return" THEN Settle(parse_top_hits(f.value), "done")
                 ELSE Settle(f, "done")
    /\ UNCHANGED <<entry, seq, sequence, rid, timeout, attempt, sleeps, clock,
                   status>>

\* parse_top_hits(xml), called on its own.
ParseCall ==
    /\ entry = "parse_top_hits" /\ pc = "call"
    /\ Settle(parse_top_hits(xml), "done")
    /\ UNCHANGED <<entry, seq, sequence, rid, timeout, attempt, sleeps, clock,
                   calls, status, xml>>

Next ==
    \/ CleanCall
    \/ LookupCall
    \/ Submit
    \/ Poll
    \/ Sleep
    \/ Exhausted
    \/ Fetch
    \/ ParseCall

Spec == Init /\ [][Next]_vars

(***************************************************************************)
(* Properties.                                                             *)
(***************************************************************************)
Polls == Cardinality({i \in DOMAIN calls : calls[i].op = "poll"})

LookupDone == entry = "blast_lookup" /\ pc = "done"

IsResultSet(d) == DOMAIN d = {"query_len", "top_hits"}
IsErrorPayload(d) == DOMAIN d = {"error"}

\* C1: blast_lookup never raises; it returns a ResultSet (exactly the keys
\* query_len and top_hits, the reduction of the fetched document) or an
\* ErrorPayload (exactly the key error, with the message of the stage that
\* failed), whatever the input and whatever the service answers.
C1_LookupTotal ==
    /\ (entry = "blast_lookup" /\ pc # "done") => outcome = "running"
    /\ LookupDone =>
          /\ outcome = "return"
          /\ \/ /\ IsResultSet(result)
                /\ exc = NoExc
                /\ calls[Len(calls)].op = "fetch"
                /\ xml.wellformed
                /\ Len(result.top_hits) <= Len(xml.hits)
             \/ /\ IsErrorPayload(result)
                /\ IF exc = NoExc THEN result.error.msg = "Sequence too long (max 3000 bp)"
                   ELSE result.error = StrOf(exc)

C1_Witness ==
    /\ LookupDone /\ outcome = "return"
    /\ IsErrorPayload(result)
    /\ exc.type = "TimeoutError" /\ result.error.msg = "BLAST timed out"

C1_WitnessResultSet ==
    LookupDone /\ outcome = "return" /\ IsResultSet(result)

\* The call order of C2: in a lookup the network calls are one submit, then status polls for
\* the handle that submit returned, then at most one fetch for that handle,
\* issued right after a poll that saw Status=READY; after a failure of any
\* stage no network call is made.
C2_OrderInv ==
    entry = "blast_lookup" =>
        \A i \in DOMAIN calls :
            /\ calls[i].op = "submit" <=> i = 1
            /\ calls[i].op = "poll" =>
                  /\ calls[i].rid = rid
                  /\ calls[i].ready => (i = Len(calls) \/ calls[i + 1].op = "fetch")
                  /\ ~calls[i].ready => (i = Len(calls) \/ calls[i + 1].op = "poll")
            /\ calls[i].op = "fetch" =>
                  /\ i = Len(calls) /\ i >= 3
                  /\ calls[i].rid = rid
                  /\ calls[i - 1].op = "poll" /\ calls[i - 1].ready
                  /\ calls[i - 1].rid = calls[i].rid

\* C2: the call order above holds in every state of a lookup, and no step
\* taken after a stage has failed, or after the lookup has returned, adds a
\* network call.
C2_CallOrder ==
    /\ []C2_OrderInv
    /\ [][(entry = "blast_lookup" /\ (exc # NoExc \/ outcome # "running"))
              => calls' = calls]_vars

C2_Witness ==
    /\ LookupDone /\ Len(calls) >= 5
    /\ calls[Len(calls)].op = "fetch" /\ calls[Len(calls) - 1].ready
    /\ ~calls[Len(calls) - 2].ready

\* C3: a lookup whose input normalizes to more than 3000 symbols returns the
\* "Sequence too long" payload and makes no network call; with exactly 3000
\* symbols (or fewer) it goes on to submit.
C3_LengthLimit ==
    (entry = "blast_lookup" /\ pc # "call" /\ sequence # <<>>) =>
        IF Len(sequence) > 3000
        THEN /\ pc = "done" /\ outcome = "return"
             /\ IsErrorPayload(result)
             /\ result.error.msg = "Sequence too long (max 3000 bp)"
             /\ calls = <<>>
        ELSE /\ pc = "submit" \/ (calls # <<>> /\ calls[1].op = "submit")
             /\ pc = "done" /\ IsErrorPayload(result) =>
                    result.error.msg # "Sequence too long (max 3000 bp)"

C3_Witness ==
    /\ LookupDone /\ Len(sequence) = 3001 /\ calls = <<>>
    /\ result.error.msg = "Sequence too long (max 3000 bp)"

C3_WitnessAtLimit ==
    entry = "blast_lookup" /\ Len(sequence) = 3000 /\ Len(seq) > 3000
        /\ calls # <<>>

HasFailedMarker(text) ==
    Contains(text, STATUS_FAILED) \/ Contains(text, STATUS_UNKNOWN)

FailedNow ==
    /\ pc = "done" /\ exc.type = "RuntimeError"
    /\ exc.msg = "BLAST search failed or unknown"
    /\ calls[Len(calls)].op = "poll"
    /\ outcome = IF entry = "blast_lookup" THEN "return" ELSE "raise"

\* C4 as stated: after a status response that contains Status=FAILED or
\* Status=UNKNOWN the wait has failed with "BLAST search failed or unknown",
\* with no further poll or sleep, whatever else the response contains.
C4_FailedAlwaysFails ==
    (entry = "wait_for_result" /\ HasFailedMarker(status)) => FailedNow

\* C4 as amended: after a status response that contains Status=FAILED or
\* Status=UNKNOWN and does not contain Status=READY, the wait has failed
\* with "BLAST search failed or unknown", that poll being its last call and
\* no sleep following it, however much of the attempt budget remains; a
\* response that also contains Status=READY makes the wait return.
C4_FailedWithoutReadyFails ==
    /\ (HasFailedMarker(status) /\ ~Contains(status, STATUS_READY)) =>
          /\ FailedNow
          /\ sleeps = Polls - 1
    /\ (entry = "wait_for_result" /\ HasFailedMarker(status)
            /\ Contains(status, STATUS_READY)) =>
          (pc = "done" /\ outcome = "return")

C4_Witness ==
    /\ entry = "wait_for_result" /\ FailedNow
    /\ Contains(status, STATUS_UNKNOWN) /\ ~Contains(status, STATUS_FAILED)
    /\ Polls = 2 /\ 5 * (Polls + 1) <= timeout

FloorDiv5(t) == t \div 5

TimedOut ==
    pc = "done" /\ outcome = "raise" /\ exc.type = "TimeoutError"

C5_WitnessNoPoll ==
    entry = "wait_for_result" /\ TimedOut /\ timeout < 0 /\ Polls = 0

\* C6: when the first k-1 status responses show no marker and the k-th shows
\* READY, with k <= floor(timeout / 5), wait_for_result returns after exactly
\* k polls and k-1 sleeps of 5 seconds each, none of them after the READY
\* response; the loop does not give up before floor(timeout / 5) polls.
C6_ReadyAfterPending ==
    entry = "wait_for_result" =>
        /\ (calls # <<>> /\ calls[Len(calls)].ready) =>
              /\ pc = "done" /\ outcome = "return"
              /\ Polls <= FloorDiv5(timeout)
              /\ \A i \in 1..(Len(calls) - 1) : ~calls[i].ready
              /\ sleeps = Polls - 1
              /\ clock = 5 * (Polls - 1)
        /\ (pc = "done" /\ outcome = "return") => calls[Len(calls)].ready
        /\ TimedOut => Polls >= FloorDiv5(timeout)
        /\ pc = "sleep" => (~HasFailedMarker(status) /\ ~Contains(status, STATUS_READY))

C6_Witness ==
    /\ entry = "wait_for_result" /\ pc = "done" /\ outcome = "return"
    /\ Polls = 3 /\ sleeps = 2 /\ clock = 10
    /\ Contains(status, STATUS_READY)

ParseDone == entry = "parse_top_hits" /\ pc = "done"

Take(s, n) == SubSeq(s, 1, IF Len(s) < n THEN Len(s) ELSE n)

WithAlignment(hits) == SelectSeq(hits, LAMBDA h : h.hsp.present)

Accessions(hits) == [k \in DOMAIN hits |-> FindText(hits[k].accession, <<>>)]

ReturnedAccessions == [k \in DOMAIN result.top_hits |-> result.top_hits[k].accession]

\* The documents whose hits carry no numeric field at all: every hit is
\* reduced with the defaults, so nothing but the selection decides the result.
PlainHits ==
    /\ xml.wellformed /\ ~xml.query_len.present
    /\ \A k \in DOMAIN xml.hits :
          /\ ~xml.hits[k].len.present
          /\ ~xml.hits[k].hsp.identity.present
          /\ ~xml.hits[k].hsp.align_len.present
          /\ ~xml.hits[k].hsp.evalue.present

\* C7 as stated: parse_top_hits returns, in document order, the first ten of
\* the hits that have an alignment sub-record; a hit without one does not
\* count toward the cap.
C7_SkippedNotCounted ==
    (ParseDone /\ PlainHits) =>
        /\ outcome = "return"
        /\ ReturnedAccessions = Accessions(Take(WithAlignment(xml.hits), 10))

\* C7 as amended: parse_top_hits returns, in document order, those of the
\* first ten hit records that have an alignment sub-record; a hit without
\* one among the first ten is skipped and still counts toward the cap, so
\* twelve hits with alignments yield ten entries and twelve hits of which
\* one of the first ten lacks an alignment yield nine.
C7_FirstTenThenSkip ==
    (ParseDone /\ PlainHits) =>
        /\ outcome = "return"
        /\ ReturnedAccessions = Accessions(WithAlignment(Take(xml.hits, 10)))
        /\ Len(result.top_hits) <= 10

C7_Witness ==
    /\ ParseDone /\ PlainHits /\ outcome = "return"
    /\ Len(xml.hits) = 12
    /\ ~xml.hits[4].hsp.present
    /\ \A k \in DOMAIN xml.hits : k # 4 => xml.hits[k].hsp.present
    /\ Len(result.top_hits) = 9

C7_WitnessTwelve ==
    /\ ParseDone /\ PlainHits /\ outcome = "return"
    /\ Len(xml.hits) = 12
    /\ \A k \in DOMAIN xml.hits : xml.hits[k].hsp.present
    /\ Len(result.top_hits) = 10

IsNumeric(text) == ParseInt(text).kind = "return"

Usable(field) == ~field.present \/ IsNumeric(field.text)

ValueOr(field, default) ==
    IF field.present /\ IsNumeric(field.text) THEN ParseInt(field.text).value
    ELSE default

\* The documents with one hit whose identity count and alignment length
\* cannot make the reduction fail.
OneSoundHit ==
    /\ xml.wellformed /\ Len(xml.hits) = 1 /\ xml.hits[1].hsp.present
    /\ Usable(xml.hits[1].hsp.identity)
    /\ Usable(xml.hits[1].hsp.align_len)
    /\ ValueOr(xml.hits[1].hsp.align_len, 1) # 0

Reduced == (ParseDone \/ (LookupDone /\ calls # <<>> /\ calls[Len(calls)].op = "fetch"
                             /\ exc.type \notin {"ConnectionError", "HTTPError"}))

\* C8 as stated: for a well-formed document a numeric field that is absent
\* or not a number does not make the reduction fail: query_len becomes 0,
\* the hit's length 0 and its e-value 1.0, and the ResultSet is returned.
C8_NonNumericDefaults ==
    (Reduced /\ OneSoundHit) =>
        /\ outcome = "return" /\ IsResultSet(result)
        /\ result.query_len = ValueOr(xml.query_len, 0)
        /\ result.top_hits[1].length = ValueOr(xml.hits[1].len, 0)
        /\ result.top_hits[1].evalue = ValueOr(xml.hits[1].hsp.evalue, 1)

\* C8 as amended: for a well-formed document an absent numeric field does
\* not make the reduction fail: query_len becomes 0, the hit's length 0 and
\* its e-value 1.0, and the ResultSet is returned.  A field that is present
\* with a text that is not a number (the empty text included) makes
\* parse_top_hits raise ValueError, and blast_lookup returns an ErrorPayload
\* with that message.
C8_AbsentDefaults ==
    (Reduced /\ OneSoundHit) =>
        IF Usable(xml.query_len) /\ Usable(xml.hits[1].len)
               /\ Usable(xml.hits[1].hsp.evalue)
        THEN /\ outcome = "return" /\ IsResultSet(result)
             /\ result.query_len = ValueOr(xml.query_len, 0)
             /\ result.top_hits[1].length = ValueOr(xml.hits[1].len, 0)
             /\ result.top_hits[1].evalue = ValueOr(xml.hits[1].hsp.evalue, 1)
        ELSE /\ exc.type = "ValueError"
             /\ IF entry = "blast_lookup"
                THEN outcome = "return" /\ IsErrorPayload(result)
                         /\ result.error = StrOf(exc)
                ELSE outcome = "raise"

C8_Witness ==
    /\ ParseDone /\ OneSoundHit /\ outcome = "return"
    /\ ~xml.query_len.present /\ ~xml.hits[1].len.present
    /\ ~xml.hits[1].hsp.evalue.present
    /\ result.query_len = 0 /\ result.top_hits[1].length = 0
    /\ result.top_hits[1].evalue = 1

C8_WitnessNonNumeric ==
    /\ LookupDone /\ OneSoundHit /\ xml.query_len = Field(<<"x">>)
    /\ IsErrorPayload(result) /\ exc.type = "ValueError"

CleanDone == entry = "clean_sequence" /\ pc = "done"

Alphabet ==
    {"A", "C", "G", "T", "R", "Y", "K", "M", "S", "W", "B", "D", "H", "V", "N"}

InputLines == SplitLines(Strip(seq))

DescriptorCount ==
    Cardinality({k \in DOMAIN InputLines : StartsWith(InputLines[k], <<">">>)})

DataText ==
    Join(SelectSeq(InputLines, LAMBDA line : ~StartsWith(line, <<">">>)))

\* The symbols of the data lines, whitespace of any kind dropped, uppercased,
\* that are outside the alphabet.
Offending ==
    CharSet(Upper(SelectSeq(DataText, LAMBDA c : ~IsSpace(c)))) \ Alphabet

\* The symbols outside the alphabet in what the validation looks at: the
\* data lines, each trimmed, concatenated, blanks dropped, uppercased.
OffendingAfterTrim ==
    LET data == SelectSeq(InputLines, LAMBDA line : ~StartsWith(line, <<">">>))
        trimmed == Join([k \in DOMAIN data |-> Strip(data[k])])
    IN  CharSet(Upper(SelectSeq(trimmed, LAMBDA c : c # " "))) \ Alphabet

InvalidCharacters(chars) ==
    /\ outcome = "raise" /\ exc.type = "ValueError"
    /\ exc.msg = "Invalid characters in sequence: "
    /\ exc.chars = chars

\* C9 as stated: whenever the data lines contain a symbol outside the
\* alphabet, clean_sequence fails with "Invalid characters in sequence"
\* listing exactly the offending symbols, whatever else the input contains
\* (descriptor lines, interior spaces or tabs, lower-case letters).
C9_OffendingAlwaysListed ==
    (CleanDone /\ Offending # {}) => InvalidCharacters(Offending)

\* C9 as amended: whenever the input has at most one descriptor line and its
\* data lines (each trimmed, concatenated, blanks removed, uppercased)
\* contain a symbol outside the alphabet, clean_sequence fails with "Invalid
\* characters in sequence" listing exactly those symbols and returns no
\* sequence; a tab inside a data line is not removed and is listed as an
\* offending symbol.  With more than one descriptor line it fails with the
\* "Multiple sequences detected" error instead.
C9_OffendingListed ==
    CleanDone =>
        /\ (DescriptorCount <= 1 /\ OffendingAfterTrim # {}) =>
              InvalidCharacters(OffendingAfterTrim)
        /\ (DescriptorCount > 1) =>
              /\ outcome = "raise"
              /\ exc.msg = "Multiple sequences detected. Please submit only one sequence at a time."
        /\ outcome = "return" => (Offending = {} /\ CharSet(result) \subseteq Alphabet)

C9_Witness ==
    /\ CleanDone /\ DescriptorCount = 1
    /\ seq = <<">", "\n", "g", " ", "x">>
    /\ InvalidCharacters({"X"})

C9_WitnessTab ==
    /\ CleanDone /\ seq = <<"A", "\t", "x">>
    /\ InvalidCharacters({"X", "\t"})

NonNegative(field, default) == Usable(field) /\ ValueOr(field, default) >= 0

\* The well-formed documents of one hit whose numeric fields are all absent
\* or numbers, with an identity count and an alignment length that are not
\* negative.
NumericHit ==
    /\ xml.wellformed /\ Len(xml.hits) = 1 /\ xml.hits[1].hsp.present
    /\ Usable(xml.query_len) /\ Usable(xml.hits[1].len)
    /\ Usable(xml.hits[1].hsp.evalue)
    /\ NonNegative(xml.hits[1].hsp.identity, 0)
    /\ NonNegative(xml.hits[1].hsp.align_len, 1)

\* C10: every HitSummary that parse_top_hits returns has an identity_percent
\* within [0, 100] (here in hundredths: [0, 10000]), also when the alignment
\* length is absent, is 0, or is smaller than the identity count, and the
\* reduction never fails with a division by zero.
C10_IdentityPercentRange ==
    (ParseDone /\ NumericHit) =>
        /\ outcome = "return"
        /\ result.top_hits[1].identity_percent >= 0
        /\ result.top_hits[1].identity_percent <= 10000

====
